---- MODULE Spec2Model ----
(***************************************************************************)
(* Model of the horse-management decision functions of horsin-around:      *)
(*   src/src/decisions.py  get_ranks, propose_merge, propose_reorg         *)
(*   src/src/utilities.py  flag_pareto_optimal, compute_energy,            *)
(*                         compute_centrality, permutation_cycle_decomp    *)
(* Three specifications, one per function: SpecReorg, SpecMerge, SpecRank. *)
(* A python dict is a sequence of <<key, value>> pairs in insertion order. *)
(* Horse names are small integers (their order is the order sorted() uses).*)
(***************************************************************************)
EXTENDS Integers, Sequences, FiniteSets, TLC

VARIABLES
    pc,             \* "input", then "exec"/"done"/"rejected"/"assert_failed"
    names,          \* propose_reorg, propose_merge: the names argument
    moves,          \* propose_reorg, propose_merge: the returned list
    ranks,          \* propose_reorg: the ranks argument
    stalls,         \* stall name -> rank of the horse standing in it
    holding,        \* the horse in the holding area
    ip,             \* index of the next instruction to carry out
    keeps,          \* propose_merge: the keeps argument
    main_zones,     \* propose_merge: the main_zones argument
    pairing,        \* propose_merge: the zipped (i, j) index pairs
    df_primary,     \* get_ranks: rows of primary values
    df_secondary,   \* get_ranks: rows of secondary values
    pareto_optimal, \* get_ranks: the "pareto_optimal" column
    rank            \* get_ranks: the returned "rank" column

reorgVars == <<ranks, stalls, holding, ip>>

mergeVars == <<keeps, main_zones, pairing>>

rankVars == <<df_primary, df_secondary, pareto_optimal, rank>>

vars == <<pc, names, moves, reorgVars, mergeVars, rankVars>>

(* ---------------------------- bounds ----------------------------------- *)
MaxHorses == 6

MaxMerge == 4

MaxMergeNames == 2

MaxPopulation == 3

MaxPrimary == 2

MaxSecondary == 1

(* ---------------------------- generic helpers -------------------------- *)
Range(s) == {s[i] : i \in DOMAIN s}

Reverse(s) == [i \in 1..Len(s) |-> s[Len(s) + 1 - i]]

Pop(s) == SubSeq(s, 1, Len(s) - 1)

InjectiveSeqs(S, n) == {f \in [1..n -> S] : \A i, j \in 1..n : f[i] = f[j] => i = j}

(* ---------------------------- python dicts ----------------------------- *)
DictHas(d, k) == \E i \in 1..Len(d) : d[i][1] = k

DictGet(d, k) == d[CHOOSE i \in 1..Len(d) : d[i][1] = k][2]

DictDel(d, k) == SelectSeq(d, LAMBDA p : p[1] # k)

DictSet(d, k, v) ==
    IF DictHas(d, k)
    THEN [i \in 1..Len(d) |-> IF d[i][1] = k THEN <<k, v>> ELSE d[i]]
    ELSE Append(d, <<k, v>>)

FirstKey(d) == d[1][1]

(* ---------------------------- instructions ----------------------------- *)
NoName == 0

Swap(name1, name2) == [op |-> "Swap", a |-> name1, b |-> name2]

Stash(name_stash) == [op |-> "Stash", a |-> name_stash, b |-> NoName]

Move(name_old, name_new) == [op |-> "Move", a |-> name_old, b |-> name_new]

MoveStashed(name_new) == [op |-> "MoveStashed", a |-> NoName, b |-> name_new]

NoMoves == [op |-> "NoMoves", a |-> NoName, b |-> NoName]

EmptyString == [op |-> "Empty", a |-> NoName, b |-> NoName]

(* ---------------------------- permutation_cycle_decomp ----------------- *)
RECURSIVE CycleLoop(_, _, _)
CycleLoop(perm_dict, perm_dicts_new, node) ==
    IF perm_dict = <<>> THEN perm_dicts_new
    ELSE IF DictHas(perm_dict, node)
    THEN LET node_new == DictGet(perm_dict, node)
             last == Len(perm_dicts_new)
         IN  CycleLoop(DictDel(perm_dict, node),
                       [perm_dicts_new EXCEPT ![last] = DictSet(@, node, node_new)],
                       node_new)
    ELSE CycleLoop(perm_dict, Append(perm_dicts_new, <<>>), FirstKey(perm_dict))

permutation_cycle_decomp(perm_dict) ==
    CycleLoop(perm_dict, << <<>> >>, FirstKey(perm_dict))

(* ---------------------------- propose_reorg ---------------------------- *)
NamesOldDescending(nms, rks) ==
    [r \in 1..Len(nms) |-> nms[CHOOSE i \in 1..Len(nms) : rks[i] = Len(nms) + 1 - r]]

NamesOld(nms, rks) ==
    [r \in 1..Len(nms) |-> nms[CHOOSE i \in 1..Len(nms) : rks[i] = r]]

NamesPermDict(nms, rks) ==
    [i \in 1..Len(nms) |-> <<NamesOld(nms, rks)[i], nms[i]>>]

SortedPair(name1, name2) ==
    IF name1 <= name2 THEN <<name1, name2>> ELSE <<name2, name1>>

SwapMove(names_perm_dict) ==
    LET pair == SortedPair(names_perm_dict[1][1], names_perm_dict[1][2])
    IN  Swap(pair[1], pair[2])

CycleBodyForward(cycle) ==
    LET kept == SelectSeq(cycle, LAMBDA p : p[1] # p[2])
    IN  [i \in 1..Len(kept) |-> Move(kept[i][1], kept[i][2])]

CycleBody(cycle) ==
    LET rev == Reverse(cycle)
        kept == SelectSeq(rev, LAMBDA p : p[1] # p[2])
    IN  [i \in 1..Len(kept) |-> Move(kept[i][1], kept[i][2])]

CycleMovesNoPop(mvs, cycle) ==
    LET name_stash == cycle[Len(cycle)][2]
        name_new == cycle[1][2]
    IN  Append(Append(mvs, Stash(name_stash)) \o CycleBody(cycle),
               MoveStashed(name_new))

CycleMoves(mvs, cycle) ==
    LET name_stash == cycle[Len(cycle)][2]
        name_new == cycle[1][2]
    IN  Append(Pop(Append(mvs, Stash(name_stash)) \o CycleBody(cycle)),
               MoveStashed(name_new))

RECURSIVE FormMoves(_, _)
FormMoves(mvs, names_perm_dicts) ==
    IF names_perm_dicts = <<>> THEN mvs
    ELSE LET names_perm_dict == Head(names_perm_dicts)
             rest == Tail(names_perm_dicts)
         IN  IF Len(names_perm_dict) = 1 THEN FormMoves(mvs, rest)
             ELSE IF Len(names_perm_dict) = 2
             THEN FormMoves(Append(mvs, SwapMove(names_perm_dict)), rest)
             ELSE FormMoves(CycleMoves(mvs, names_perm_dict), rest)

LooksLikeListNoPadding(mvs) ==
    IF Len(mvs) = 0 THEN <<NoMoves>> ELSE mvs

LooksLikeList(mvs) ==
    LET mvs1 == IF Len(mvs) = 0 THEN <<NoMoves>> ELSE mvs
    IN  IF Len(mvs1) < 2 THEN Append(mvs1, EmptyString) ELSE mvs1

propose_reorg(nms, rks) ==
    LooksLikeList(FormMoves(<<>>, permutation_cycle_decomp(NamesPermDict(nms, rks))))

(* ---------------------------- reorg: state machine --------------------- *)
\* an empty stall or holding area holds no horse
Empty == NoName

\* stall names in ascending, descending and rotated order
NameOrders(n) ==
    { [i \in 1..n |-> i], [i \in 1..n |-> n + 1 - i], [i \in 1..n |-> (i % n) + 1] }

ReorgInputs ==
    UNION { NameOrders(n) \X InjectiveSeqs(1..n, n) : n \in 1..MaxHorses }

InitReorg ==
    /\ pc = "input"
    /\ \E inp \in ReorgInputs : names = inp[1] /\ ranks = inp[2]
    /\ moves = <<>>
    /\ stalls = <<>>
    /\ holding = Empty
    /\ ip = 0
    /\ keeps = <<>> /\ main_zones = <<>> /\ pairing = <<>>
    /\ df_primary = <<>> /\ df_secondary = <<>> /\ pareto_optimal = <<>> /\ rank = <<>>

\* the call: the plan is computed, the horses stand in their starting stalls
ProposeReorg ==
    /\ pc = "input"
    /\ moves' = propose_reorg(names, ranks)
    /\ stalls' = [x \in Range(names) |-> ranks[CHOOSE i \in 1..Len(names) : names[i] = x]]
    /\ holding' = Empty
    /\ ip' = 1
    /\ pc' = "exec"
    /\ UNCHANGED <<names, ranks>>
    /\ UNCHANGED <<mergeVars, rankVars>>

Current == moves[ip]

Executing(o) == pc = "exec" /\ ip <= Len(moves) /\ Current.op = o

ExecSwap ==
    /\ Executing("Swap")
    /\ stalls' = [stalls EXCEPT ![Current.a] = stalls[Current.b],
                                ![Current.b] = stalls[Current.a]]
    /\ ip' = ip + 1
    /\ UNCHANGED <<pc, names, ranks, moves, holding>>
    /\ UNCHANGED <<mergeVars, rankVars>>

ExecStash ==
    /\ Executing("Stash")
    /\ holding' = stalls[Current.a]
    /\ stalls' = [stalls EXCEPT ![Current.a] = Empty]
    /\ ip' = ip + 1
    /\ UNCHANGED <<pc, names, ranks, moves>>
    /\ UNCHANGED <<mergeVars, rankVars>>

ExecMove ==
    /\ Executing("Move")
    /\ stalls' = [stalls EXCEPT ![Current.b] = stalls[Current.a],
                                ![Current.a] = Empty]
    /\ ip' = ip + 1
    /\ UNCHANGED <<pc, names, ranks, moves, holding>>
    /\ UNCHANGED <<mergeVars, rankVars>>

ExecMoveStashed ==
    /\ Executing("MoveStashed")
    /\ stalls' = [stalls EXCEPT ![Current.b] = holding]
    /\ holding' = Empty
    /\ ip' = ip + 1
    /\ UNCHANGED <<pc, names, ranks, moves>>
    /\ UNCHANGED <<mergeVars, rankVars>>

ExecNothing ==
    /\ pc = "exec" /\ ip <= Len(moves) /\ Current.op \in {"NoMoves", "Empty"}
    /\ ip' = ip + 1
    /\ UNCHANGED <<pc, names, ranks, moves, stalls, holding>>
    /\ UNCHANGED <<mergeVars, rankVars>>

ExecDone ==
    /\ pc = "exec" /\ ip > Len(moves)
    /\ pc' = "done"
    /\ UNCHANGED <<names, ranks, moves, stalls, holding, ip>>
    /\ UNCHANGED <<mergeVars, rankVars>>

NextReorg ==
    \/ ProposeReorg
    \/ ExecSwap
    \/ ExecStash
    \/ ExecMove
    \/ ExecMoveStashed
    \/ ExecNothing
    \/ ExecDone

SpecReorg == InitReorg /\ [][NextReorg]_vars

(* ---------------------------- reorg: properties ------------------------ *)
Planned == pc \in {"exec", "done"}

StallIndex(x) == CHOOSE i \in 1..Len(names) : names[i] = x

\* the stall in which the horse now standing in stall x belongs
Target(x) == names[ranks[StallIndex(x)]]

RECURSIVE OrbitFrom(_, _)
OrbitFrom(x, seen) == IF x \in seen THEN seen ELSE OrbitFrom(Target(x), seen \cup {x})

Orbit(x) == OrbitFrom(x, {})

CycleLen(x) == Cardinality(Orbit(x))

\* the instructions of the plan that name a stall of the cycle of x
CycleInstructions(x) ==
    SelectSeq(moves, LAMBDA m : m.a \in Orbit(x) \/ m.b \in Orbit(x))

IsIdentity == \A i \in 1..Len(ranks) : ranks[i] = i

Displaced == {i \in 1..Len(ranks) : ranks[i] # i}

IsTransposition == Cardinality(Displaced) = 2

\* C1: executing the returned instructions in order on the starting
\* arrangement ends with stall names[i] holding the horse of rank i.
C1_ReorgSorts ==
    pc = "done" => \A i \in 1..Len(names) : stalls[names[i]] = i

C1_Witness ==
    /\ pc = "done"
    /\ \E x, y \in Range(names) : CycleLen(x) >= 3 /\ CycleLen(y) = 2
    /\ names[1] # 1

\* C2 (as claimed): a cycle of length k >= 3 gets exactly k instructions,
\* one stash, k-1 moves, the last one moving the stashed horse; the example
\* names=[A,B,C], ranks=[2,3,1] yields 3 instructions.
C2_Original ==
    Planned =>
        /\ \A x \in Range(names) :
              LET k == CycleLen(x)
                  ci == CycleInstructions(x)
              IN  k >= 3 =>
                    /\ Len(ci) = k
                    /\ ci[1].op = "Stash"
                    /\ \A i \in 2..(k - 1) : ci[i].op = "Move"
                    /\ ci[k].op = "MoveStashed"
        /\ (names = <<1, 2, 3>> /\ ranks = <<2, 3, 1>>) =>
              moves = <<Stash(3), Move(2, 3), MoveStashed(2)>>

\* C2 (amended): a cycle of length k >= 3 gets exactly k+1 instructions,
\* one stash followed by k moves, the last of which moves the stashed horse;
\* names=[A,B,C], ranks=[2,3,1] yields the 4 instructions stash C, move B to
\* C, move A to B, move the stashed horse to A.
C2_CycleInstructionCount ==
    Planned =>
        /\ \A x \in Range(names) :
              LET k == CycleLen(x)
                  ci == CycleInstructions(x)
              IN  k >= 3 =>
                    /\ Len(ci) = k + 1
                    /\ ci[1].op = "Stash"
                    /\ \A i \in 2..k : ci[i].op = "Move"
                    /\ ci[k + 1].op = "MoveStashed"
        /\ (names = <<1, 2, 3>> /\ ranks = <<2, 3, 1>>) =>
              moves = <<Stash(3), Move(2, 3), Move(1, 2), MoveStashed(1)>>

C2_Witness ==
    /\ Planned
    /\ \E x, y \in Range(names) : CycleLen(x) >= 3 /\ CycleLen(y) >= 3 /\ y \notin Orbit(x)

\* C4 (as claimed): sorted ranks return exactly the one-element sequence
\* holding the "no moves" sentinel; a single transposition returns exactly
\* the one swap instruction.
C4_Original ==
    Planned =>
        /\ IsIdentity => moves = <<NoMoves>>
        /\ IsTransposition => Len(moves) = 1 /\ moves[1].op = "Swap"

\* C4 (amended): sorted ranks return the "no moves" sentinel followed by one
\* empty string; a single transposition returns the one swap instruction
\* (lower name first) followed by one empty string.
C4_SentinelAndSwap ==
    Planned =>
        /\ IsIdentity => moves = <<NoMoves, EmptyString>>
        /\ IsTransposition =>
              \E x, y \in Range(names) :
                  /\ x < y /\ Target(x) = y /\ Target(y) = x
                  /\ moves = <<Swap(x, y), EmptyString>>

C4_Witness ==
    pc = "done" /\ IsTransposition /\ Len(names) >= 3 /\ names[1] # 1

\* C9: while the plan is executed, every move finds its destination stall
\* empty, every stash finds the holding area empty, and the holding area is
\* empty after the last instruction.
C9_NoCollision ==
    /\ Executing("Move") => stalls[Current.b] = Empty /\ stalls[Current.a] # Empty
    /\ Executing("MoveStashed") => stalls[Current.b] = Empty /\ holding # Empty
    /\ Executing("Stash") => holding = Empty /\ stalls[Current.a] # Empty
    /\ pc = "done" => holding = Empty

\* a second cycle is about to use the holding area again
C9_Witness ==
    /\ Executing("Stash")
    /\ \E j \in 1..(ip - 1) : moves[j].op = "MoveStashed"

(* ---------------------------- propose_merge ---------------------------- *)
NoneValue == [op |-> "None", a |-> NoName, b |-> NoName]

MoveTo(name_old, name_new) == [op |-> "move to", a |-> name_old, b |-> name_new]

Keep(name) == [op |-> "keep", a |-> name, b |-> NoName]

Kill(name) == [op |-> "kill", a |-> name, b |-> NoName]

CountTrue(flags) == Cardinality({i \in 1..Len(flags) : flags[i]})

\* sum(keeps) <= sum(main_zones)
CapacityOk(kps, mzs) == CountTrue(kps) <= CountTrue(mzs)

InstructionType(keep, main_zone) ==
    IF main_zone /\ keep THEN "keep"
    ELSE IF main_zone /\ ~keep THEN "kill_primary"
    ELSE IF ~main_zone /\ keep THEN "move"
    ELSE "kill_secondary"

InstructionTypes(kps, mzs) ==
    [i \in 1..Len(kps) |-> InstructionType(kps[i], mzs[i])]

\* df.query(...).index: the matching row labels, ascending
QueryIndex(types, wanted) ==
    SelectSeq([i \in 1..Len(types) |-> i], LAMBDA i : types[i] \in wanted)

ZipReversed(idx_to_move, idx_to_move_into) ==
    LET into == SubSeq(idx_to_move_into, 1, Len(idx_to_move))
    IN  [j \in 1..Len(into) |-> <<idx_to_move[j], into[Len(into) + 1 - j]>>]

Zip(idx_to_move, idx_to_move_into) ==
    LET into == SubSeq(idx_to_move_into, 1, Len(idx_to_move))
    IN  [j \in 1..Len(into) |-> <<idx_to_move[j], into[j]>>]

MovePairs(types) ==
    Zip(QueryIndex(types, {"move"}), QueryIndex(types, {"kill_primary"}))

MoveDetailSwapped(nms, pairs, i) ==
    LET j == DictGet(pairs, i)
    IN  MoveTo(nms[j], nms[i])

MoveDetail(nms, pairs, i) ==
    LET j == DictGet(pairs, i)
    IN  MoveTo(nms[i], nms[j])

KillDetailSkipsTargets(nms, types, pairs, i) ==
    IF types[i] = "kill_secondary" THEN Kill(nms[i])
    ELSE IF types[i] = "kill_primary" /\ ~(\E j \in 1..Len(pairs) : pairs[j][2] = i)
    THEN Kill(nms[i])
    ELSE NoneValue

KillDetail(nms, types, pairs, i) ==
    IF types[i] \in {"kill_primary", "kill_secondary"} THEN Kill(nms[i]) ELSE NoneValue

\* the "instruction" column after the three detail passes (moves, keeps,
\* kills); a later pass overwrites an earlier one
Instructions(nms, types, pairs) ==
    [i \in 1..Len(nms) |->
        IF KillDetail(nms, types, pairs, i) # NoneValue THEN KillDetail(nms, types, pairs, i)
        ELSE IF types[i] = "keep" THEN Keep(nms[i])
        ELSE IF DictHas(pairs, i) THEN MoveDetail(nms, pairs, i)
        ELSE NoneValue]

\* the two asserts after the capacity check
MergeAssertsHold(nms, kps, mzs) ==
    LET types == InstructionTypes(kps, mzs)
    IN  /\ Len(QueryIndex(types, {"move"})) <= Len(QueryIndex(types, {"kill_primary"}))
        /\ \A i \in 1..Len(nms) : Instructions(nms, types, MovePairs(types))[i] # NoneValue

propose_merge(nms, kps, mzs) ==
    LET types == InstructionTypes(kps, mzs)
    IN  Instructions(nms, types, MovePairs(types))

(* ---------------------------- merge: state machine --------------------- *)
MergeInputs ==
    UNION { [1..n -> 1..MaxMergeNames] \X [1..n -> BOOLEAN] \X [1..n -> BOOLEAN]
            : n \in 1..MaxMerge }

InitMerge ==
    /\ pc = "input"
    /\ \E inp \in MergeInputs : names = inp[1] /\ keeps = inp[2] /\ main_zones = inp[3]
    /\ moves = <<>>
    /\ pairing = <<>>
    /\ ranks = <<>> /\ stalls = <<>> /\ holding = Empty /\ ip = 0
    /\ df_primary = <<>> /\ df_secondary = <<>> /\ pareto_optimal = <<>> /\ rank = <<>>

\* the capacity assert fails: no instructions are returned
MergeRejected ==
    /\ pc = "input"
    /\ ~CapacityOk(keeps, main_zones)
    /\ pc' = "rejected"
    /\ UNCHANGED <<names, moves, mergeVars, reorgVars, rankVars>>

ProposeMerge ==
    /\ pc = "input"
    /\ CapacityOk(keeps, main_zones)
    /\ pairing' = MovePairs(InstructionTypes(keeps, main_zones))
    /\ IF MergeAssertsHold(names, keeps, main_zones)
       THEN moves' = propose_merge(names, keeps, main_zones) /\ pc' = "done"
       ELSE moves' = moves /\ pc' = "assert_failed"
    /\ UNCHANGED <<names, keeps, main_zones, reorgVars, rankVars>>

NextMerge ==
    \/ MergeRejected
    \/ ProposeMerge

SpecMerge == InitMerge /\ [][NextMerge]_vars

(* ---------------------------- merge: properties ------------------------ *)
Called == pc # "input"

Entities == 1..Len(names)

IsKeep(i) == main_zones[i] /\ keeps[i]

IsKillPrimary(i) == main_zones[i] /\ ~keeps[i]

IsMove(i) == ~main_zones[i] /\ keeps[i]

IsKillSecondary(i) == ~main_zones[i] /\ ~keeps[i]

\* the j-th entity, in input order, of the entities satisfying P
Nth(P(_), j) ==
    CHOOSE i \in Entities : P(i) /\ Cardinality({h \in 1..i : P(h)}) = j

NumMove == Cardinality({i \in Entities : IsMove(i)})

NumKillPrimary == Cardinality({i \in Entities : IsKillPrimary(i)})

MoveTargets == {pairing[j][2] : j \in 1..Len(pairing)}

MainZoneKills == {i \in Entities : main_zones[i] /\ moves[i].op = "kill"}

\* C3 (as claimed): a KillPrimary entity chosen as the target of a move gets
\* no "kill" instruction of its own, so the number of "kill" instructions
\* given to main-zone entities is count(KillPrimary) - count(Move).
C3_Original ==
    (Called /\ CapacityOk(keeps, main_zones)) =>
        /\ pc = "done"
        /\ \A i \in MoveTargets : moves[i].op # "kill"
        /\ Cardinality(MainZoneKills) = NumKillPrimary - NumMove

\* C3 (amended): every KillPrimary entity, also one chosen as the target of
\* a move, gets its own "kill" instruction, so the number of "kill"
\* instructions given to main-zone entities is count(KillPrimary).
C3_KillPrimaryAlwaysKilled ==
    (Called /\ CapacityOk(keeps, main_zones)) =>
        /\ pc = "done"
        /\ \A i \in Entities : IsKillPrimary(i) => moves[i] = Kill(names[i])
        /\ \A i \in MoveTargets : IsKillPrimary(i)
        /\ Cardinality(MainZoneKills) = NumKillPrimary

C3_Witness ==
    /\ pc = "done"
    /\ NumMove >= 1
    /\ NumKillPrimary > NumMove
    /\ \E i \in MoveTargets : moves[i].op = "kill"

\* C8: with count(keep) <= count(main_zone) the result has exactly one
\* instruction per entity, the i-th about the i-th entity: "keep" for
\* (main, keep), "move to" for (not main, keep), "kill" for (not main, not
\* keep), also when names repeat.
C8_OneInstructionPerEntity ==
    (Called /\ CapacityOk(keeps, main_zones)) =>
        /\ pc = "done"
        /\ Len(moves) = Len(names)
        /\ \A i \in Entities :
              /\ moves[i].a = names[i]
              /\ moves[i].op \in {"keep", "move to", "kill"}
              /\ IsKeep(i) => moves[i] = Keep(names[i])
              /\ IsMove(i) => moves[i].op = "move to"
              /\ IsKillSecondary(i) => moves[i] = Kill(names[i])

C8_Witness ==
    /\ pc = "done"
    /\ \E i, j \in Entities : i # j /\ names[i] = names[j] /\ IsMove(i) /\ IsKillPrimary(j)
    /\ \E i \in Entities : IsKeep(i)
    /\ \E i \in Entities : IsKillSecondary(i)

\* C10: with count(keep) <= count(main_zone) the assert "moves <= kill
\* primaries" holds, and the j-th Move entity is told to move to the name of
\* the j-th KillPrimary entity, so every Move entity has a target and no two
\* share one.
C10_MovePairing ==
    (Called /\ CapacityOk(keeps, main_zones)) =>
        /\ pc # "assert_failed"
        /\ NumMove <= NumKillPrimary
        /\ Len(pairing) = NumMove
        /\ \A j \in 1..NumMove :
              /\ pairing[j] = <<Nth(IsMove, j), Nth(IsKillPrimary, j)>>
              /\ moves[Nth(IsMove, j)] =
                    MoveTo(names[Nth(IsMove, j)], names[Nth(IsKillPrimary, j)])
        /\ \A j, h \in 1..Len(pairing) : pairing[j][2] = pairing[h][2] => j = h

C10_Witness ==
    /\ pc = "done"
    /\ NumMove >= 2
    /\ NumKillPrimary >= 2
    /\ \E i, j \in Entities : i < j /\ IsMove(j) /\ IsKillPrimary(i)
    /\ names[Nth(IsKillPrimary, 1)] # names[Nth(IsKillPrimary, 2)]

(* ---------------------------- get_ranks -------------------------------- *)
PrimaryColumns == <<"speed", "stamina">>

SecondaryColumns == <<"age">>

RECURSIVE Sum(_)
Sum(x) == IF x = <<>> THEN 0 ELSE Head(x) + Sum(Tail(x))

Abs(n) == IF n < 0 THEN -n ELSE n

\* exact numbers: <<numerator, denominator>> with a positive denominator
Num(n) == <<n, 1>>

NumLess(x, y) == x[1] * y[2] < y[1] * x[2]

NumEq(x, y) == x[1] * y[2] = y[1] * x[2]

\* python tuple comparison: the first differing position decides
TupleLess(t, u) ==
    \E i \in 1..Len(t) :
        /\ \A h \in 1..(i - 1) : NumEq(t[h], u[h])
        /\ NumLess(t[i], u[i])

TupleEq(t, u) == \A i \in 1..Len(t) : NumEq(t[i], u[i])

DropDuplicatesNone(df) == df

\* df.drop_duplicates(): the first occurrence of every row
DropDuplicates(df) ==
    LET idx == SelectSeq([i \in 1..Len(df) |-> i],
                         LAMBDA i : \A h \in 1..(i - 1) : df[h] # df[i])
    IN  [k \in 1..Len(idx) |-> df[idx[k]]]

_check_pareto_optimal(row, df) ==
    LET num_weak_dominating ==
            Cardinality({k \in 1..Len(df) : \A c \in 1..Len(row) : row[c] <= df[k][c]})
    IN  num_weak_dominating = 1

flag_pareto_optimal(df) ==
    LET _df == DropDuplicates(df)
    IN  [i \in 1..Len(df) |-> _check_pareto_optimal(df[i], _df)]

compute_energy(x) == Sum(x)

\* dot(x / |x|, 1 / |1|) = s / sqrt(n * q) with s the sum and q the sum of
\* squares; kept as the exact number sign(s) * s^2 / (n * q), which orders
\* vectors exactly as the score does
compute_centrality(x) ==
    LET s == Sum(x)
        q == Sum([c \in 1..Len(x) |-> x[c] * x[c]])
    IN  <<s * Abs(s), Len(x) * q>>

BoolNum(b) == IF b THEN Num(1) ELSE Num(0)

RankingKeySecondaryFirst(primary, secondary, flag) ==
    <<BoolNum(flag), Num(compute_energy(primary)), compute_centrality(primary)>>
        \o [c \in 1..Len(secondary) |-> Num(secondary[c])]
        \o [c \in 1..Len(primary) |-> Num(primary[c])]

\* one row of df[cols_ranking] as a tuple
RankingKey(primary, secondary, flag) ==
    <<BoolNum(flag), Num(compute_energy(primary)), compute_centrality(primary)>>
        \o [c \in 1..Len(primary) |-> Num(primary[c])]
        \o [c \in 1..Len(secondary) |-> Num(secondary[c])]

RankMinDescending(keys) ==
    [i \in 1..Len(keys) |->
        1 + Cardinality({j \in 1..Len(keys) : TupleLess(keys[i], keys[j])})]

\* Series.rank(method="first", ascending=False): position in descending
\* order, equal values in their order of appearance
RankFirstDescending(keys) ==
    [i \in 1..Len(keys) |->
        1 + Cardinality({j \in 1..Len(keys) : TupleLess(keys[i], keys[j])})
          + Cardinality({j \in 1..(i - 1) : TupleEq(keys[i], keys[j])})]

get_ranks(primary, secondary) ==
    LET flags == flag_pareto_optimal(primary)
        keys == [i \in 1..Len(primary) |-> RankingKey(primary[i], secondary[i], flags[i])]
    IN  RankFirstDescending(keys)

(* ---------------------------- ranking: state machine ------------------- *)
\* primary rows: non-negative values, not all zero (the centrality of the
\* zero vector is undefined)
PrimaryRows ==
    {x \in [1..Len(PrimaryColumns) -> 0..MaxPrimary] : \E c \in DOMAIN x : x[c] # 0}

SecondaryRows == [1..Len(SecondaryColumns) -> 0..MaxSecondary]

RankInputs ==
    UNION { [1..n -> PrimaryRows] \X [1..n -> SecondaryRows] : n \in 1..MaxPopulation }

InitRank ==
    /\ pc = "input"
    /\ \E inp \in RankInputs : df_primary = inp[1] /\ df_secondary = inp[2]
    /\ pareto_optimal = <<>>
    /\ rank = <<>>
    /\ names = <<>> /\ moves = <<>>
    /\ ranks = <<>> /\ stalls = <<>> /\ holding = Empty /\ ip = 0
    /\ keeps = <<>> /\ main_zones = <<>> /\ pairing = <<>>

GetRanks ==
    /\ pc = "input"
    /\ pareto_optimal' = flag_pareto_optimal(df_primary)
    /\ rank' = get_ranks(df_primary, df_secondary)
    /\ pc' = "done"
    /\ UNCHANGED <<df_primary, df_secondary, names, moves, reorgVars, mergeVars>>

NextRank == GetRanks

SpecRank == InitRank /\ [][NextRank]_vars

(* ---------------------------- ranking: properties ---------------------- *)
Population == 1..Len(df_primary)

WeaklyDominates(w, v) == \A c \in 1..Len(v) : w[c] >= v[c]

\* no entity with a different primary vector weakly dominates entity i
Undominated(i) ==
    ~ \E j \in Population :
          /\ df_primary[j] # df_primary[i]
          /\ WeaklyDominates(df_primary[j], df_primary[i])

SumSquares(x) == Sum([c \in 1..Len(x) |-> x[c] * x[c]])

\* cosine to the all-ones direction, compared without the square roots
\* (sums are non-negative for the rows drawn)
MoreCentral(x, y) == Sum(x) * Sum(x) * SumSquares(y) > Sum(y) * Sum(y) * SumSquares(x)

AsCentral(x, y) == Sum(x) * Sum(x) * SumSquares(y) = Sum(y) * Sum(y) * SumSquares(x)

LexGreater(x, y) ==
    \E c \in 1..Len(x) : (\A h \in 1..(c - 1) : x[h] = y[h]) /\ x[c] > y[c]

KeyGreater(i, j) ==
    LET p == df_primary[i]
        q == df_primary[j]
    IN  \/ Undominated(i) /\ ~Undominated(j)
        \/ /\ Undominated(i) = Undominated(j)
           /\ \/ Sum(p) > Sum(q)
              \/ /\ Sum(p) = Sum(q)
                 /\ \/ MoreCentral(p, q)
                    \/ /\ AsCentral(p, q)
                       /\ \/ LexGreater(p, q)
                          \/ p = q /\ LexGreater(df_secondary[i], df_secondary[j])

KeyEqual(i, j) ==
    /\ Undominated(i) = Undominated(j)
    /\ Sum(df_primary[i]) = Sum(df_primary[j])
    /\ AsCentral(df_primary[i], df_primary[j])
    /\ df_primary[i] = df_primary[j]
    /\ df_secondary[i] = df_secondary[j]

\* C5: the ranks of a population of N entities are a bijection onto 1..N,
\* also when several entities have identical primary and secondary vectors.
C5_RanksAreBijection ==
    pc = "done" =>
        /\ Len(rank) = Len(df_primary)
        /\ {rank[i] : i \in Population} = Population
        /\ \A i, j \in Population : rank[i] = rank[j] => i = j

C5_Witness ==
    /\ pc = "done"
    /\ Len(df_primary) >= 3
    /\ \E i, j \in Population :
          i # j /\ df_primary[i] = df_primary[j] /\ df_secondary[i] = df_secondary[j]

C7_ParetoFlag ==
    pc = "done" =>
        /\ \A i \in Population : pareto_optimal[i] <=> Undominated(i)
        /\ \A i, j \in Population :
              df_primary[i] = df_primary[j] => pareto_optimal[i] = pareto_optimal[j]

C7_Witness ==
    /\ pc = "done"
    /\ \E i, j, k \in Population :
          /\ i # j /\ df_primary[i] = df_primary[j] /\ pareto_optimal[i]
          /\ ~pareto_optimal[k]

====
